---- MODULE Spec2Model ----
(***************************************************************************)
(* Model of bin/daod/demo/tx.py: TransactionBuilder, Transaction,          *)
(* BurnProof and MintProof.                                                *)
(*                                                                         *)
(* The curve adapter (ec) and the crypto module (ff_hash,                  *)
(* pedersen_encrypt, sign, verify) are imported by tx.py but are not part  *)
(* of the modelled source.  They are modelled from their contracts:        *)
(*   - the group is the free module Z_q x Z_q, a point <<a, b>> standing   *)
(*     for a*G + b*H with G and H independent generators;                  *)
(*   - ff_hash is an arithmetic hash into Z_p;                             *)
(*   - a signature names the message it signs and the public key of the    *)
(*     secret that made it.                                                *)
(***************************************************************************)
EXTENDS Integers, Sequences, FiniteSets, TLC

\* ------------------------------------------------------------------------
\* Curve parameters and bounds of the model
\* ------------------------------------------------------------------------

\* scalar-field order q of the toy curve (ec.order)
Order == 3
\* base-field modulus p of the toy curve (ec.p)
FieldP == 2
\* total number of add_clear_input / add_input / add_output calls
MaxSpecs == 2
\* number of direct writes to the fields of a built transaction
MaxTamper == 1

Scalars == 0..(Order - 1)
FieldElems == 0..(FieldP - 1)
\* a Value is a non-negative integer fitting in a Scalar
Values == Scalars
TokenIds == FieldElems
Points == Scalars \X Scalars

\* ------------------------------------------------------------------------
\* Curve adapter (ec) and crypto primitives
\* ------------------------------------------------------------------------

ec_G == <<1, 0>>
ec_H == <<0, 1>>
\* the identity point, written (0, 1, 0) in the source
ec_identity == <<0, 0>>

ec_add(P, Q) == <<(P[1] + Q[1]) % Order, (P[2] + Q[2]) % Order>>

ec_multiply(s, P) == <<(s * P[1]) % Order, (s * P[2]) % Order>>

\* (v[0], -v[1], v[2]): the additive inverse of a point
ec_negate(P) == <<(Order - P[1]) % Order, (Order - P[2]) % Order>>

pedersen_encrypt(x, y) == ec_add(ec_multiply(x, ec_G), ec_multiply(y, ec_H))

RECURSIVE SeqSum(_)
SeqSum(s) == IF s = <<>> THEN 0 ELSE Head(s) + SeqSum(Tail(s))

ff_hash(args) == SeqSum(args) % FieldP

sign(msg, secret) == [msg |-> msg, key |-> ec_multiply(secret, ec_G)]

sig_verify(msg, signature, public) ==
    /\ signature.msg = msg
    /\ signature.key = public

\* ------------------------------------------------------------------------
\* BurnProof
\* ------------------------------------------------------------------------

BurnProof(value, token_id, value_blind, token_blind, serial, coin_blind, secret, depends, attrs, all_coins, signature_secret) ==
    [value |-> value, token_id |-> token_id, value_blind |-> value_blind,
     token_blind |-> token_blind, serial |-> serial,
     coin_blind |-> coin_blind, secret |-> secret, depends |-> depends,
     attrs |-> attrs, all_coins |-> all_coins,
     signature_secret |-> signature_secret]

BurnProof_get_revealed(self) ==
    [nullifier |-> ff_hash(<<self.secret, self.serial>>),
     value_commit |-> pedersen_encrypt(self.value, self.value_blind),
     token_commit |-> pedersen_encrypt(self.token_id, self.token_blind),
     all_coins |-> self.all_coins,
     signature_public |-> ec_multiply(self.signature_secret, ec_G)]

BurnProof_coin(self) ==
    LET public_key == ec_multiply(self.secret, ec_G)
    IN  ff_hash(<<FieldP, public_key[1], public_key[2], self.value,
                  self.token_id, self.serial, self.coin_blind, self.depends,
                  self.attrs>>)

\* BurnProof.verify without the membership check of the coin
BurnProof_verify_no_membership(self, public) ==
    LET revealed == BurnProof_get_revealed(self)
    IN  /\ revealed.nullifier = public.nullifier
        /\ revealed.value_commit = public.value_commit
        /\ revealed.token_commit = public.token_commit
        /\ revealed.all_coins = public.all_coins
        /\ revealed.signature_public = public.signature_public

BurnProof_verify(self, public) ==
    LET revealed == BurnProof_get_revealed(self)
    IN  IF BurnProof_coin(self) \notin self.all_coins
        THEN FALSE
        ELSE /\ revealed.nullifier = public.nullifier
             /\ revealed.value_commit = public.value_commit
             /\ revealed.token_commit = public.token_commit
             /\ revealed.all_coins = public.all_coins
             /\ revealed.signature_public = public.signature_public

\* ------------------------------------------------------------------------
\* MintProof
\* ------------------------------------------------------------------------

MintProof(value, token_id, value_blind, token_blind, serial, coin_blind, public, depends, attrs) ==
    [value |-> value, token_id |-> token_id, value_blind |-> value_blind,
     token_blind |-> token_blind, serial |-> serial,
     coin_blind |-> coin_blind, public |-> public, depends |-> depends,
     attrs |-> attrs]

MintProof_get_revealed(self) ==
    [coin |-> ff_hash(<<FieldP, self.public[1], self.public[2], self.value,
                        self.token_id, self.serial, self.coin_blind,
                        self.depends, self.attrs>>),
     value_commit |-> pedersen_encrypt(self.value, self.value_blind),
     token_commit |-> pedersen_encrypt(self.token_id, self.token_blind)]

\* MintProof.verify without the comparison of the coin
MintProof_verify_no_coin(self, public) ==
    LET revealed == MintProof_get_revealed(self)
    IN  /\ revealed.value_commit = public.value_commit
        /\ revealed.token_commit = public.token_commit

MintProof_verify(self, public) ==
    LET revealed == MintProof_get_revealed(self)
    IN  /\ revealed.coin = public.coin
        /\ revealed.value_commit = public.value_commit
        /\ revealed.token_commit = public.token_commit

\* ------------------------------------------------------------------------
\* Transaction
\* ------------------------------------------------------------------------

\* Transaction.__init__: three empty lists
Transaction == [clear_inputs |-> <<>>, inputs |-> <<>>, outputs |-> <<>>]

partial_encode(self) == "hello"

RECURSIVE SumPoints(_)
SumPoints(ps) ==
    IF ps = <<>> THEN ec_identity ELSE ec_add(Head(ps), SumPoints(Tail(ps)))

\* _check_value_commits adding the outputs' commitments instead of
\* subtracting them
check_value_commits_no_negate(self) ==
    LET clear == [i \in 1..Len(self.clear_inputs) |->
                    pedersen_encrypt(self.clear_inputs[i].value,
                                     self.clear_inputs[i].value_blind)]
        ins   == [i \in 1..Len(self.inputs) |->
                    self.inputs[i].revealed.value_commit]
        outs  == [i \in 1..Len(self.outputs) |->
                    self.outputs[i].revealed.value_commit]
        valcom_total == SumPoints(clear \o ins \o outs)
    IN  valcom_total = ec_identity

check_value_commits(self) ==
    LET clear == [i \in 1..Len(self.clear_inputs) |->
                    pedersen_encrypt(self.clear_inputs[i].value,
                                     self.clear_inputs[i].value_blind)]
        ins   == [i \in 1..Len(self.inputs) |->
                    self.inputs[i].revealed.value_commit]
        outs  == [i \in 1..Len(self.outputs) |->
                    ec_negate(self.outputs[i].revealed.value_commit)]
        valcom_total == SumPoints(clear \o ins \o outs)
    IN  valcom_total = ec_identity

check_proofs(self) ==
    /\ \A i \in 1..Len(self.inputs) :
          BurnProof_verify(self.inputs[i].burn_proof, self.inputs[i].revealed)
    /\ \A i \in 1..Len(self.outputs) :
          MintProof_verify(self.outputs[i].mint_proof,
                           self.outputs[i].revealed)

\* evaluated only when self.outputs is not empty (the source asserts it)
verify_token_commitments(self) ==
    LET token_commit_value == self.outputs[1].revealed.token_commit
    IN  /\ \A i \in 1..Len(self.clear_inputs) :
              pedersen_encrypt(self.clear_inputs[i].token_id,
                               self.clear_inputs[i].token_blind)
                  = token_commit_value
        /\ \A i \in 1..Len(self.inputs) :
              self.inputs[i].revealed.token_commit = token_commit_value
        /\ \A i \in 1..Len(self.outputs) :
              self.outputs[i].revealed.token_commit = token_commit_value

check_signatures(self) ==
    LET unsigned_tx_data == partial_encode(self)
    IN  /\ \A i \in 1..Len(self.clear_inputs) :
              sig_verify(unsigned_tx_data, self.clear_inputs[i].signature,
                         self.clear_inputs[i].signature_public)
        /\ \A i \in 1..Len(self.inputs) :
              sig_verify(unsigned_tx_data, self.inputs[i].signature,
                         self.inputs[i].revealed.signature_public)

\* What a call of verify() yields: a two-element tuple (ok, reason), a bare
\* boolean, or an exception.  "None" stands for Python's None.
ReturnPair(ok, reason) == [shape |-> "pair", ok |-> ok, reason |-> reason]
ReturnBare(ok) == [shape |-> "bool", ok |-> ok, reason |-> "-"]
Raise(exc) == [shape |-> "raise", ok |-> FALSE, reason |-> exc]

\* verify() running the proofs gate before the value-commitment gate
Transaction_verify_proofs_first(self) ==
    IF ~check_proofs(self)
    THEN ReturnPair(FALSE, "proofs failed to verify")
    ELSE IF ~check_value_commits(self)
    THEN ReturnPair(FALSE, "value commits do not match")
    ELSE IF Len(self.outputs) = 0
    THEN Raise("AssertionError")
    ELSE IF ~verify_token_commitments(self)
    THEN ReturnPair(FALSE, "token ID mismatch")
    ELSE IF ~check_signatures(self)
    THEN ReturnBare(FALSE)
    ELSE ReturnPair(TRUE, "None")

Transaction_verify(self) ==
    IF ~check_value_commits(self)
    THEN ReturnPair(FALSE, "value commits do not match")
    ELSE IF ~check_proofs(self)
    THEN ReturnPair(FALSE, "proofs failed to verify")
    ELSE IF Len(self.outputs) = 0
    THEN Raise("AssertionError")
    ELSE IF ~verify_token_commitments(self)
    THEN ReturnPair(FALSE, "token ID mismatch")
    ELSE IF ~check_signatures(self)
    THEN ReturnBare(FALSE)
    ELSE ReturnPair(TRUE, "None")

\* ------------------------------------------------------------------------
\* TransactionBuilder
\* ------------------------------------------------------------------------

\* compute_remainder_blind leaving out the clear inputs' blinds
compute_remainder_blind_no_clear(clear_inputs, input_blinds, output_blinds) ==
    (SeqSum(input_blinds) - SeqSum(output_blinds)) % Order

compute_remainder_blind(clear_inputs, input_blinds, output_blinds) ==
    LET total == SeqSum([i \in 1..Len(clear_inputs) |->
                            clear_inputs[i].value_blind])
                 + SeqSum(input_blinds) - SeqSum(output_blinds)
    IN  total % Order

\* build() drawing a token blind of its own for each clear input
build_clear_inputs_own_blind(specs, token_blind, value_blinds) ==
    [i \in 1..Len(specs) |->
        [value |-> specs[i].value,
         token_id |-> specs[i].token_id,
         value_blind |-> value_blinds[i],
         token_blind |-> (token_blind + value_blinds[i]) % Order,
         signature_public |-> ec_multiply(specs[i].signature_secret, ec_G)]]

\* the clear inputs of build(), before signing
build_clear_inputs(specs, token_blind, value_blinds) ==
    [i \in 1..Len(specs) |->
        [value |-> specs[i].value,
         token_id |-> specs[i].token_id,
         value_blind |-> value_blinds[i],
         token_blind |-> token_blind,
         signature_public |-> ec_multiply(specs[i].signature_secret, ec_G)]]

\* build() handing the note's own token_blind to the BurnProof
build_burn_proof_note_blind(input, token_blind, signature_secret) ==
    BurnProof(input.note.value, input.note.token_id, input.note.value_blind,
              input.note.token_blind, input.note.serial,
              input.note.coin_blind, input.secret, input.note.depends,
              input.note.attrs, input.all_coins, signature_secret)

\* the BurnProof build() makes for one shielded input
build_burn_proof(input, token_blind, signature_secret) ==
    BurnProof(input.note.value, input.note.token_id, input.note.value_blind,
              token_blind, input.note.serial, input.note.coin_blind,
              input.secret, input.note.depends, input.note.attrs,
              input.all_coins, signature_secret)

\* the shielded inputs of build(), before signing
build_inputs(specs, token_blind, signature_secrets) ==
    [i \in 1..Len(specs) |->
        LET burn_proof == build_burn_proof(specs[i], token_blind,
                                           signature_secrets[i])
        IN  [burn_proof |-> burn_proof,
             revealed |-> BurnProof_get_revealed(burn_proof)]]

\* the value blinds of the outputs: the drawn ones, then the remainder
RECURSIVE build_output_blinds(_, _, _, _)
build_output_blinds(n, tx_clear_inputs, input_blinds, drawn) ==
    IF n = 0 THEN <<>>
    ELSE LET output_blinds == [i \in 1..(n - 1) |-> drawn[i]]
         IN  Append(output_blinds,
                    compute_remainder_blind(tx_clear_inputs, input_blinds,
                                            output_blinds))

\* the outputs of build()
build_outputs(specs, token_blind, value_blinds, serials, coin_blinds) ==
    [i \in 1..Len(specs) |->
        LET note == [serial |-> serials[i],
                     value |-> specs[i].value,
                     token_id |-> specs[i].token_id,
                     coin_blind |-> coin_blinds[i],
                     value_blind |-> value_blinds[i],
                     token_blind |-> token_blind,
                     depends |-> specs[i].depends,
                     attrs |-> specs[i].attrs]
            mint_proof == MintProof(note.value, note.token_id,
                                    note.value_blind, note.token_blind,
                                    note.serial, note.coin_blind,
                                    specs[i].public, specs[i].depends,
                                    specs[i].attrs)
        IN  [mint_proof |-> mint_proof,
             revealed |-> MintProof_get_revealed(mint_proof),
             enc_note |-> note]]

\* the signing loops at the end of build()
build_sign(tx0, clear_specs, signature_secrets) ==
    LET unsigned_tx_data == partial_encode(tx0)
    IN  [tx0 EXCEPT
           !.clear_inputs = [i \in 1..Len(tx0.clear_inputs) |->
               [value |-> tx0.clear_inputs[i].value,
                token_id |-> tx0.clear_inputs[i].token_id,
                value_blind |-> tx0.clear_inputs[i].value_blind,
                token_blind |-> tx0.clear_inputs[i].token_blind,
                signature_public |-> tx0.clear_inputs[i].signature_public,
                signature |-> sign(unsigned_tx_data,
                                   clear_specs[i].signature_secret)]],
           !.inputs = [i \in 1..Len(tx0.inputs) |->
               [burn_proof |-> tx0.inputs[i].burn_proof,
                revealed |-> tx0.inputs[i].revealed,
                signature |-> sign(unsigned_tx_data, signature_secrets[i])]]]

\* build() with its random draws made explicit
build(b_clear, b_inputs, b_outputs, token_blind, clear_blinds, signature_secrets, drawn_blinds, serials, coin_blinds) ==
    LET tx_clear == build_clear_inputs(b_clear, token_blind, clear_blinds)
        input_blinds == [i \in 1..Len(b_inputs) |->
                            b_inputs[i].note.value_blind]
        tx_inputs == build_inputs(b_inputs, token_blind, signature_secrets)
        output_blinds == build_output_blinds(Len(b_outputs), tx_clear,
                                             input_blinds, drawn_blinds)
        tx_outputs == build_outputs(b_outputs, token_blind, output_blinds,
                                    serials, coin_blinds)
        tx0 == [clear_inputs |-> tx_clear, inputs |-> tx_inputs,
                outputs |-> tx_outputs]
    IN  build_sign(tx0, b_clear, signature_secrets)

\* ------------------------------------------------------------------------
\* The state machine: one builder, the transaction it builds, direct writes
\* to the fields of that transaction, and verify() on it
\* ------------------------------------------------------------------------

VARIABLES
    builder,   \* TransactionBuilder: clear_inputs, inputs, outputs
    tx,        \* the Transaction object
    before,    \* tx as it was before the last write to one of its fields
    tampers,   \* the writes made to tx since build() returned
    pc,        \* "building", "raised", "built" or "verified"
    result     \* what verify() returned

vars == <<builder, tx, before, tampers, pc, result>>

NotRun == [shape |-> "none", ok |-> FALSE, reason |-> "-"]

\* arguments the callers pass
Recipients == {ec_multiply(1, ec_G)}
Secrets == {1}
OutputValues == {0, 1}
Notes == [serial : {0}, value : {1}, token_id : TokenIds,
          coin_blind : {0}, value_blind : Scalars \ {0},
          token_blind : {1}, depends : {0}, attrs : {0}]
CoinSets == {{c} : c \in FieldElems}

NumSpecs == Len(builder.clear_inputs) + Len(builder.inputs)
            + Len(builder.outputs)

TransactionBuilder ==
    [clear_inputs |-> <<>>, inputs |-> <<>>, outputs |-> <<>>]

Init ==
    /\ builder = TransactionBuilder
    /\ tx = Transaction
    /\ before = Transaction
    /\ tampers = <<>>
    /\ pc = "building"
    /\ result = NotRun

add_clear_input(value, token_id, signature_secret) ==
    /\ pc = "building"
    /\ NumSpecs < MaxSpecs
    /\ builder' = [builder EXCEPT !.clear_inputs = Append(@,
           [value |-> value, token_id |-> token_id,
            signature_secret |-> signature_secret])]
    /\ UNCHANGED <<tx, before, tampers, pc, result>>

add_input(all_coins, secret, note) ==
    /\ pc = "building"
    /\ NumSpecs < MaxSpecs
    /\ builder' = [builder EXCEPT !.inputs = Append(@,
           [all_coins |-> all_coins, secret |-> secret, note |-> note])]
    /\ UNCHANGED <<tx, before, tampers, pc, result>>

add_output(value, token_id, public, depends, attrs) ==
    /\ pc = "building"
    /\ NumSpecs < MaxSpecs
    /\ builder' = [builder EXCEPT !.outputs = Append(@,
           [value |-> value, token_id |-> token_id, public |-> public,
            depends |-> depends, attrs |-> attrs])]
    /\ UNCHANGED <<tx, before, tampers, pc, result>>

\* build() on a builder with outputs: returns the signed transaction
Build ==
    /\ pc = "building"
    /\ Len(builder.outputs) > 0
    /\ \E token_blind \in Scalars,
          clear_blinds \in [1..Len(builder.clear_inputs) -> Scalars],
          signature_secrets \in [1..Len(builder.inputs) -> Scalars],
          drawn_blinds \in [1..(Len(builder.outputs) - 1) -> Scalars],
          serials \in [1..Len(builder.outputs) -> FieldElems],
          coin_blinds \in [1..Len(builder.outputs) -> FieldElems] :
          /\ tx' = build(builder.clear_inputs, builder.inputs,
                         builder.outputs, token_blind, clear_blinds,
                         signature_secrets, drawn_blinds, serials,
                         coin_blinds)
          /\ before' = tx'
    /\ pc' = "built"
    /\ UNCHANGED <<builder, tampers, result>>

\* build() on a builder without outputs: "assert self.outputs" raises
BuildRaises ==
    /\ pc = "building"
    /\ Len(builder.outputs) = 0
    /\ pc' = "raised"
    /\ UNCHANGED <<builder, tx, before, tampers, result>>

Verify ==
    /\ pc = "built"
    /\ result' = Transaction_verify(tx)
    /\ pc' = "verified"
    /\ UNCHANGED <<builder, tx, before, tampers>>

\* ------------------------------------------------------------------------
\* Direct writes to a built transaction.  Transaction and its records are
\* plain mutable objects: a caller (a test, a relay, an attacker) can change
\* any field between build() and verify().
\* ------------------------------------------------------------------------

Tampered(new_tx, kind, index, field) ==
    /\ pc = "built"
    /\ Len(tampers) < MaxTamper
    /\ before' = tx
    /\ tx' = new_tx
    /\ tampers' = Append(tampers,
                         [kind |-> kind, index |-> index, field |-> field])
    /\ UNCHANGED <<builder, pc, result>>

\* tx.inputs[i].revealed.<field> = v
SetInputRevealed(i, field, v) ==
    Tampered([tx EXCEPT !.inputs[i].revealed[field] = v],
             "input.revealed", i, field)

\* tx.outputs[i].revealed.<field> = v
SetOutputRevealed(i, field, v) ==
    Tampered([tx EXCEPT !.outputs[i].revealed[field] = v],
             "output.revealed", i, field)

\* tx.clear_inputs[i].signature = sign(tx.partial_encode(), secret, ec)
SetClearSignature(i, secret) ==
    Tampered([tx EXCEPT !.clear_inputs[i].signature =
                            sign(partial_encode(tx), secret)],
             "clear_input", i, "signature")

\* tx.inputs[i].signature = sign(tx.partial_encode(), secret, ec)
SetInputSignature(i, secret) ==
    Tampered([tx EXCEPT !.inputs[i].signature =
                            sign(partial_encode(tx), secret)],
             "input", i, "signature")

\* tx.outputs[i].enc_note.value = v
SetEncNoteValue(i, v) ==
    Tampered([tx EXCEPT !.outputs[i].enc_note.value = v],
             "output.enc_note", i, "value")

\* the output's proof and revealed record remade for another value and blind
SetOutputWitness(i, value, value_blind) ==
    LET mint_proof == [tx.outputs[i].mint_proof EXCEPT
                          !.value = value, !.value_blind = value_blind]
    IN  Tampered([tx EXCEPT !.outputs[i].mint_proof = mint_proof,
                            !.outputs[i].revealed =
                                MintProof_get_revealed(mint_proof)],
                 "output.mint_proof", i, "value")

\* the input's proof and revealed record remade for another value and blind
SetInputWitness(i, value, value_blind) ==
    LET burn_proof == [tx.inputs[i].burn_proof EXCEPT
                          !.value = value, !.value_blind = value_blind]
    IN  Tampered([tx EXCEPT !.inputs[i].burn_proof = burn_proof,
                            !.inputs[i].revealed =
                                BurnProof_get_revealed(burn_proof)],
                 "input.burn_proof", i, "value")

\* tx.outputs.clear()
ClearOutputs ==
    /\ Len(tx.outputs) > 0
    /\ Tampered([tx EXCEPT !.outputs = <<>>], "outputs", 0, "clear")

Tamper ==
    \/ \E i \in 1..Len(tx.inputs) :
          \/ \E v \in FieldElems : SetInputRevealed(i, "nullifier", v)
          \/ \E v \in Points : SetInputRevealed(i, "value_commit", v)
          \/ \E v \in Points : SetInputRevealed(i, "token_commit", v)
          \/ \E secret \in Scalars : SetInputSignature(i, secret)
          \/ \E v \in Values, r \in Scalars : SetInputWitness(i, v, r)
    \/ \E i \in 1..Len(tx.outputs) :
          \/ \E v \in FieldElems : SetOutputRevealed(i, "coin", v)
          \/ \E v \in Points : SetOutputRevealed(i, "value_commit", v)
          \/ \E v \in Points : SetOutputRevealed(i, "token_commit", v)
          \/ \E v \in Values : SetEncNoteValue(i, v)
          \/ \E v \in Values, r \in Scalars : SetOutputWitness(i, v, r)
    \/ \E i \in 1..Len(tx.clear_inputs) :
          \E secret \in Scalars : SetClearSignature(i, secret)
    \/ ClearOutputs

\* ------------------------------------------------------------------------
\* Specifications
\* ------------------------------------------------------------------------

Next ==
    \/ \E value \in Values, token_id \in TokenIds,
          signature_secret \in Secrets :
          add_clear_input(value, token_id, signature_secret)
    \/ \E all_coins \in CoinSets, secret \in Secrets, note \in Notes :
          add_input(all_coins, secret, note)
    \/ \E value \in OutputValues, token_id \in TokenIds,
          public \in Recipients :
          add_output(value, token_id, public, 0, 0)
    \/ Build
    \/ BuildRaises
    \/ Verify

\* a builder driven by add_* calls, then build(), then verify()
Spec == Init /\ [][Next]_vars

\* The builders of the end-to-end scenarios: the calls have been made, and
\* build() is about to run.
NoteCoin(secret, note) ==
    LET public_key == ec_multiply(secret, ec_G)
    IN  ff_hash(<<FieldP, public_key[1], public_key[2], note.value,
                  note.token_id, note.serial, note.coin_blind, note.depends,
                  note.attrs>>)

ScenarioNote(value) ==
    [serial |-> 1, value |-> value, token_id |-> 0,
     coin_blind |-> 0, value_blind |-> 2, token_blind |-> 1,
     depends |-> 0, attrs |-> 0]

ClearSpec(value, token_id) ==
    [value |-> value, token_id |-> token_id, signature_secret |-> 1]

OutputSpec(value, token_id) ==
    [value |-> value, token_id |-> token_id, public |-> ec_multiply(1, ec_G),
     depends |-> 0, attrs |-> 0]

OwnedInput(note) ==
    [all_coins |-> {NoteCoin(1, note)}, secret |-> 1, note |-> note]

ForeignInput(note) ==
    [all_coins |-> FieldElems \ {NoteCoin(1, note)}, secret |-> 1,
     note |-> note]

Scenarios == {
    \* E1: one clear input to one output
    [clear_inputs |-> <<ClearSpec(1, 0)>>, inputs |-> <<>>,
     outputs |-> <<OutputSpec(1, 0)>>],
    \* a clear input and an output of value zero
    [clear_inputs |-> <<ClearSpec(0, 0)>>, inputs |-> <<>>,
     outputs |-> <<OutputSpec(0, 0)>>],
    \* E2: one shielded input split over two outputs
    [clear_inputs |-> <<>>, inputs |-> <<OwnedInput(ScenarioNote(2))>>,
     outputs |-> <<OutputSpec(1, 0), OutputSpec(1, 0)>>],
    \* E4: clear inputs of two tokens
    [clear_inputs |-> <<ClearSpec(1, 0), ClearSpec(1, 1)>>, inputs |-> <<>>,
     outputs |-> <<OutputSpec(2, 0)>>],
    \* E5: a note whose coin is not in all_coins
    [clear_inputs |-> <<>>, inputs |-> <<ForeignInput(ScenarioNote(1))>>,
     outputs |-> <<OutputSpec(1, 0)>>],
    \* a clear and a shielded input paying one output
    [clear_inputs |-> <<ClearSpec(1, 0)>>,
     inputs |-> <<OwnedInput(ScenarioNote(1))>>,
     outputs |-> <<OutputSpec(2, 0)>>],
    \* inputs worth the scalar order and an output worth nothing
    [clear_inputs |-> <<ClearSpec(Order - 1, 0)>>,
     inputs |-> <<OwnedInput(ScenarioNote(1))>>,
     outputs |-> <<OutputSpec(0, 0)>>],
    \* unbalanced, of two tokens, with a note whose coin is not in all_coins
    [clear_inputs |-> <<ClearSpec(1, 1)>>,
     inputs |-> <<ForeignInput(ScenarioNote(1))>>,
     outputs |-> <<OutputSpec(0, 0)>>]
}

\* build() over a deterministic curve adapter: its n-th random_scalar() is
\* (seed + n) mod q and its n-th random_base() is (seed + n) mod p, drawn in
\* the order of the statements of build()
SeededBuild(b, seed) ==
    LET nc == Len(b.clear_inputs)
        ni == Len(b.inputs)
        no == Len(b.outputs)
    IN  build(b.clear_inputs, b.inputs, b.outputs,
              seed % Order,
              [i \in 1..nc |-> (seed + i) % Order],
              [i \in 1..ni |-> (seed + nc + i) % Order],
              [i \in 1..(no - 1) |-> (seed + nc + ni + i) % Order],
              [i \in 1..no |-> (seed + 2 * (i - 1)) % FieldP],
              [i \in 1..no |-> (seed + 2 * (i - 1) + 1) % FieldP])

InitScenario ==
    /\ builder \in Scenarios
    /\ \E seed \in Scalars : tx = SeededBuild(builder, seed)
    /\ before = tx
    /\ tampers = <<>>
    /\ pc = "built"
    /\ result = NotRun

NextTamper ==
    \/ Tamper
    \/ Verify

\* a scenario's transaction, writes to its fields, then verify()
SpecTamper == InitScenario /\ [][NextTamper]_vars

\* ------------------------------------------------------------------------
\* Properties
\* ------------------------------------------------------------------------

Success == ReturnPair(TRUE, "None")
ValueCommitMismatch == ReturnPair(FALSE, "value commits do not match")
ProofInvalid == ReturnPair(FALSE, "proofs failed to verify")
TokenMismatch == ReturnPair(FALSE, "token ID mismatch")

Returned == pc \in {"built", "verified"}
Verified == pc = "verified"

FieldSeq(s, f) == [i \in 1..Len(s) |-> s[i][f]]
NoteSeq(s, f) == [i \in 1..Len(s) |-> s[i].note[f]]

\* totals of the values the builder was given
InputTotal(b) ==
    SeqSum(FieldSeq(b.clear_inputs, "value")) + SeqSum(NoteSeq(b.inputs, "value"))
OutputTotal(b) == SeqSum(FieldSeq(b.outputs, "value"))

SpecTokenIds(b) ==
    {b.clear_inputs[i].token_id : i \in 1..Len(b.clear_inputs)}
    \cup {b.inputs[i].note.token_id : i \in 1..Len(b.inputs)}
    \cup {b.outputs[i].token_id : i \in 1..Len(b.outputs)}

WellFormed(b) ==
    /\ Len(b.outputs) >= 1
    /\ Cardinality(SpecTokenIds(b)) = 1
    /\ \A i \in 1..Len(b.inputs) :
          NoteCoin(b.inputs[i].secret, b.inputs[i].note)
              \in b.inputs[i].all_coins
    /\ InputTotal(b) = OutputTotal(b)

\* the token blind build() drew: the one every output carries
BuildTokenBlind == tx.outputs[1].mint_proof.token_blind

\* C1: build().verify() is (True, None) for every well-formed builder (one
\* token, coins in all_coins, input total equal to output total, at least
\* one output), whatever build() draws.
C1_RoundTrip ==
    (Verified /\ WellFormed(builder)) => result = Success

\* a well-formed builder with a shielded input whose note carries another
\* token blind than the one build() drew, built and verified
C1_Witness ==
    /\ Verified
    /\ WellFormed(builder)
    /\ Len(builder.inputs) = 1
    /\ builder.inputs[1].note.token_blind # BuildTokenBlind
    /\ result = Success

\* C2 as stated: the value commitments of every built transaction cancel.
C2_Original ==
    Returned => check_value_commits(tx)

\* C2 as amended: the value commitments of a built transaction cancel when
\* the input total equals the output total modulo the scalar order.
C2_BalancedBuild ==
    (Returned /\ InputTotal(builder) % Order = OutputTotal(builder) % Order)
        => check_value_commits(tx)

\* a balanced build whose clear input has a positive value and drew a blind
\* that is not zero, so that the last output's blind is not zero either
C2_Witness ==
    /\ Returned
    /\ Len(tx.clear_inputs) = 1
    /\ tx.clear_inputs[1].value > 0
    /\ tx.clear_inputs[1].value_blind # 0
    /\ InputTotal(builder) = OutputTotal(builder)
    /\ tx.outputs[Len(tx.outputs)].mint_proof.value_blind # 0
    /\ check_value_commits(tx)

\* C10 as stated: the BurnProof carries the note's value_blind and the
\* note's token_blind.
C10_Original ==
    Returned =>
        \A i \in 1..Len(tx.inputs) :
            LET note == builder.inputs[i].note
            IN  /\ tx.inputs[i].burn_proof.value_blind = note.value_blind
                /\ tx.inputs[i].burn_proof.token_blind = note.token_blind
                /\ tx.inputs[i].revealed.value_commit
                       = pedersen_encrypt(note.value, note.value_blind)
                /\ tx.inputs[i].revealed.token_commit
                       = pedersen_encrypt(note.token_id, note.token_blind)

\* C10 as amended: the BurnProof carries the note's value_blind and the
\* token_blind drawn by this build(), the one the outputs carry.
C10_BuildBlind ==
    Returned =>
        \A i \in 1..Len(tx.inputs) :
            LET note == builder.inputs[i].note
            IN  /\ tx.inputs[i].burn_proof.value_blind = note.value_blind
                /\ tx.inputs[i].burn_proof.token_blind = BuildTokenBlind
                /\ tx.inputs[i].revealed.value_commit
                       = pedersen_encrypt(note.value, note.value_blind)
                /\ tx.inputs[i].revealed.token_commit
                       = pedersen_encrypt(note.token_id, BuildTokenBlind)

\* a built shielded input whose note's token blind is not the drawn one
C10_Witness ==
    /\ Returned
    /\ Len(tx.inputs) = 1
    /\ builder.inputs[1].note.token_blind # BuildTokenBlind
    /\ tx.inputs[1].revealed.token_commit
           # pedersen_encrypt(builder.inputs[1].note.token_id,
                              builder.inputs[1].note.token_blind)

\* ------------------------------------------------------------------------
\* Properties of verify() on arbitrary transactions
\* ------------------------------------------------------------------------

HasOutputs(t) == Len(t.outputs) > 0

\* the values a transaction states: in the clear inputs and in the proofs
StatedInputTotal(t) ==
    SeqSum(FieldSeq(t.clear_inputs, "value"))
    + SeqSum([i \in 1..Len(t.inputs) |-> t.inputs[i].burn_proof.value])
StatedOutputTotal(t) ==
    SeqSum([i \in 1..Len(t.outputs) |-> t.outputs[i].mint_proof.value])

\* every revealed value commitment commits to the value its proof states
CommitsToStated(t) ==
    /\ \A i \in 1..Len(t.inputs) :
          t.inputs[i].revealed.value_commit
              = pedersen_encrypt(t.inputs[i].burn_proof.value,
                                 t.inputs[i].burn_proof.value_blind)
    /\ \A i \in 1..Len(t.outputs) :
          t.outputs[i].revealed.value_commit
              = pedersen_encrypt(t.outputs[i].mint_proof.value,
                                 t.outputs[i].mint_proof.value_blind)

\* the shielded inputs whose coin is not in their all_coins
ForeignInputs(t) ==
    {i \in 1..Len(t.inputs) :
        BurnProof_coin(t.inputs[i].burn_proof)
            \notin t.inputs[i].burn_proof.all_coins}

\* C3: verify() names the first failing gate, in the order value
\* commitments, proofs, token commitments.
C3_GateOrder ==
    Verified =>
        /\ ~check_value_commits(tx) => result = ValueCommitMismatch
        /\ (check_value_commits(tx) /\ ~check_proofs(tx))
              => result = ProofInvalid
        /\ result = TokenMismatch
              => (check_value_commits(tx) /\ check_proofs(tx))

\* a transaction failing all four gates, reported as a value mismatch
C3_Witness ==
    /\ Verified
    /\ HasOutputs(tx)
    /\ ~check_value_commits(tx)
    /\ ~check_proofs(tx)
    /\ ~verify_token_commitments(tx)
    /\ ~check_signatures(tx)
    /\ result = ValueCommitMismatch

\* C4: when every value commitment commits to its stated value and the
\* stated input total differs from the stated output total modulo the
\* scalar order, verify() returns (False, "value commits do not match").
C4_ValueConservation ==
    (/\ Verified
     /\ CommitsToStated(tx)
     /\ StatedInputTotal(tx) % Order # StatedOutputTotal(tx) % Order)
        => result = ValueCommitMismatch

\* an output remade for another value and another blind, so that the totals
\* differ while every proof is consistent with its revealed record
C4_Witness ==
    /\ Verified
    /\ tampers # <<>>
    /\ tampers[1].kind = "output.mint_proof"
    /\ CommitsToStated(tx)
    /\ check_proofs(tx)
    /\ StatedInputTotal(tx) % Order # StatedOutputTotal(tx) % Order
    /\ tx.outputs[1].mint_proof.value_blind
           # before.outputs[1].mint_proof.value_blind
    /\ result = ValueCommitMismatch

\* C5 as stated: a shielded input whose coin is not in all_coins makes
\* BurnProof.verify false and verify() return "proofs failed to verify".
C5_Original ==
    (Verified /\ ForeignInputs(tx) # {}) =>
        /\ \A i \in ForeignInputs(tx) :
              ~BurnProof_verify(tx.inputs[i].burn_proof,
                                tx.inputs[i].revealed)
        /\ result = ProofInvalid

\* C5 as amended: such an input makes BurnProof.verify false, and verify()
\* returns "proofs failed to verify" when the value commitments cancel and
\* "value commits do not match" when they do not.
C5_ForeignNote ==
    (Verified /\ ForeignInputs(tx) # {}) =>
        /\ \A i \in ForeignInputs(tx) :
              ~BurnProof_verify(tx.inputs[i].burn_proof,
                                tx.inputs[i].revealed)
        /\ check_value_commits(tx) => result = ProofInvalid
        /\ ~check_value_commits(tx) => result = ValueCommitMismatch

\* the build of scenario E5, untouched: every revealed record is the one
\* the proof derives, and only the membership of the coin fails
C5_Witness ==
    /\ Verified
    /\ tampers = <<>>
    /\ ForeignInputs(tx) = {1}
    /\ tx.inputs[1].revealed = BurnProof_get_revealed(tx.inputs[1].burn_proof)
    /\ check_value_commits(tx)
    /\ result = ProofInvalid

\* C6: when the first three gates pass and a signature does not verify,
\* verify() returns the pair (False, None).
C6_SignatureFailureIsPair ==
    (/\ Verified
     /\ HasOutputs(tx)
     /\ check_value_commits(tx)
     /\ check_proofs(tx)
     /\ verify_token_commitments(tx)
     /\ ~check_signatures(tx))
        => result = ReturnPair(FALSE, "None")

\* C7: verify() on a transaction without outputs ends with the
\* empty-outputs error, never with the result of a gate.
C7_EmptyOutputsRejected ==
    (Verified /\ ~HasOutputs(tx)) => result.shape = "raise"

\* the body of a transaction: every field but the signatures
Body(t) ==
    [clear_inputs |-> [i \in 1..Len(t.clear_inputs) |->
                          [t.clear_inputs[i] EXCEPT
                              !.signature = "signature"]],
     inputs |-> [i \in 1..Len(t.inputs) |->
                    [t.inputs[i] EXCEPT !.signature = "signature"]],
     outputs |-> t.outputs]

\* C8: transactions with different bodies have different encodings, so a
\* signature made for one body does not verify over another.
C8_EncodingCoversBody ==
    (Returned /\ Body(tx) # Body(before)) =>
        partial_encode(tx) # partial_encode(before)

\* the writes C9 is about
IsDetectedWrite(t) ==
    \/ t.kind \in {"input.revealed", "output.revealed"}
    \/ t.field = "signature"

\* C9: after one write of a different value to a revealed commitment, coin
\* or nullifier, or of a signature made under another key, a transaction
\* that verified no longer verifies.
C9_TamperDetected ==
    (/\ Verified
     /\ tampers # <<>>
     /\ IsDetectedWrite(tampers[Len(tampers)])
     /\ tx # before
     /\ Transaction_verify(before) = Success)
        => result # Success

\* a nullifier changed in a transaction that verified
C9_Witness ==
    /\ Verified
    /\ tampers # <<>>
    /\ tampers[Len(tampers)].field = "nullifier"
    /\ tx # before
    /\ Transaction_verify(before) = Success
    /\ result = ProofInvalid

====
